---- MODULE Spec2Model ----
(***************************************************************************)
(* Model of uvkc::vulkan::CommandBuffer (src/uvkc/vulkan/command_buffer.cc) *)
(* together with the native command buffer its methods forward to.         *)
(*                                                                         *)
(* The recorder object holds only command_buffer_, device_ and symbols_;   *)
(* every method is one or more calls through symbols_ on command_buffer_.  *)
(* The lifecycle state and the command stream therefore live in the native *)
(* handle, modelled here per handle after the contract of the entry points *)
(* the source names (vkBeginCommandBuffer, vkEndCommandBuffer,             *)
(* vkResetCommandBuffer, the vkCmd family). A call violating it has         *)
(* undefined behaviour: the model lets the driver either report an error   *)
(* or carry the call out unchecked.                                        *)
(***************************************************************************)
EXTENDS Integers, Sequences, FiniteSets, TLC

\* ------------------------------------------------------------------ bounds
MaxCmds == 2         \* longest command stream recorded into one handle
MaxTimer == 3        \* largest device timer value explored
QueryCount == 2      \* slots of the timestamp query pool
BufSize == 4         \* bytes per buffer
MaxIter == 2         \* benchmark iterations driven by the scripted caller
MaxScriptCalls == 2  \* command-issuing calls in the enumerated scripts

\* ------------------------------------------------- constants of the source
OneTimeSubmitBit == 1        \* VK_COMMAND_BUFFER_USAGE_ONE_TIME_SUBMIT_BIT
BeginFlags_Reusable == OneTimeSubmitBit - 1  \* flags, were Begin to leave it out
BeginFlags == OneTimeSubmitBit   \* begin_info.flags
ReleaseResourcesBit == 1     \* VK_COMMAND_BUFFER_RESET_RELEASE_RESOURCES_BIT
ResetFlags_Release == ReleaseResourcesBit   \* flags, were Reset to release
ResetFlags == 0              \* vkResetCommandBuffer(command_buffer_, /*flags=*/0)
RegionCount == 1             \* /*regionCount=*/1
DescriptorSetCount == 1      \* /*descriptorSetCount=*/1
FirstQuery == 0              \* /*firstQuery=*/0

\* ------------------------------------------------------------- the universe
Recorders == {1, 2}
HandleOf == [r \in Recorders |-> IF r = 1 THEN "cb1" ELSE "cb2"]
Handles == {HandleOf[r] : r \in Recorders}

VkResults == {"VK_SUCCESS", "VK_ERROR_OUT_OF_HOST_MEMORY",
              "VK_ERROR_OUT_OF_DEVICE_MEMORY"}
VkErrors == VkResults \ {"VK_SUCCESS"}

LifecycleStates == {"Initial", "Recording", "Executable", "Pending", "Invalid"}

Buffers == {"bufA", "bufB"}
Pipelines == {"p1", "p2"}
DescriptorSets == {"s1", "s2", "s3"}
SetIndices == 0..2
Pools == {"qp"}
Stages == {"TOP_OF_PIPE", "BOTTOM_OF_PIPE"}

\* Buffer::buffer(), Pipeline::pipeline(), Pipeline::pipeline_layout(),
\* TimestampQueryPool::query_pool() and ::query_count(): accessors of the
\* externally owned leaf entities.
buffer(b) == b
pipeline(p) == p
pipeline_layout(p) == IF p = "p1" THEN "layout1" ELSE "layout2"
query_pool(q) == q
query_count(q) == QueryCount

\* VkResultToStatus: OK for VK_SUCCESS, otherwise an error status that
\* carries the native code.
OkStatus == [kind |-> "Ok", code |-> "VK_SUCCESS"]
VoidReturn == [kind |-> "void", code |-> "none"]
VkResultToStatus(res) ==
  IF res = "VK_SUCCESS" THEN OkStatus
  ELSE [kind |-> "NativeApiError", code |-> res]

VARIABLES
  live,             \* recorders that have been constructed
  command_buffer_,  \* [Recorders -> Handles], the member of each recorder
  state,            \* [Handles -> LifecycleStates], native lifecycle state
  cmds,             \* [Handles -> Seq(command)], native command stream
  recError,         \* [Handles -> VkResults], error met while recording
  usage,            \* [Handles -> flags], usage flags of the last begin
  retained,         \* [Handles -> BOOLEAN], handle keeps its backing memory
  ret,              \* [Recorders -> status], value returned by the last call
  last,             \* the last method call: recorder, method, arguments,
                    \* the handle's state and pending error before it, and
                    \* whether the device was executing a submission then
  issued,           \* native calls made by the last method call, in order
  inflight,         \* the submission being executed, or NoSubmission
  executed,         \* commands the device has executed for that submission,
                    \* each with the timer value at which it executed and
                    \* whether it executed with defined results
  timer,            \* device timer, in ticks
  slots,            \* [Pools -> [0..QueryCount-1 -> slot]]
  mem,              \* [Buffers -> [0..BufSize-1 -> byte]]
  bound,            \* compute bind state of the executing command buffer
  dispatches,       \* bind state seen by each executed dispatch
  poisoned,         \* the device met undefined behaviour while executing
  script, pc, iter  \* scripted caller: its call list, position, iteration

nativeVars == <<state, cmds, recError, usage, retained>>
callVars == <<ret, last, issued>>
devVars == <<inflight, executed, timer, slots, mem, bound, dispatches, poisoned>>
scriptVars == <<script, pc, iter>>
vars == <<live, command_buffer_, nativeVars, callVars, devVars, scriptVars>>

NoSubmission == [phase |-> "none", h |-> "none", stream |-> <<>>,
                 oneTime |-> FALSE, memAt |-> << >>]
NoCall == [r |-> 0, op |-> "none", args |-> <<>>, from |-> "none",
           err |-> "VK_SUCCESS", busy |-> FALSE]
NoBinding == [pipeline |-> "none", layout |-> "none",
              sets |-> [i \in SetIndices |-> "none"]]
UndefinedSlot == [st |-> "undefined", val |-> -1]
UnavailableSlot == [st |-> "unavailable", val |-> -1]

\* ------------------------------------------------------- the native layer
\* vkBeginCommandBuffer(h, &begin_info) returning res.  From Initial it
\* starts a recording; from Executable or Invalid it first resets the
\* buffer implicitly.  In Recording or Pending the call is undefined: an
\* unchecked driver restarts the recording all the same, or reports an error.
vkBeginCommandBuffer(h, flags, res) ==
  IF res = "VK_SUCCESS"
  THEN /\ state' = [state EXCEPT ![h] = "Recording"]
       /\ cmds' = [cmds EXCEPT ![h] = <<>>]
       /\ recError' = [recError EXCEPT ![h] = "VK_SUCCESS"]
       /\ usage' = [usage EXCEPT ![h] = flags]
       /\ retained' = [retained EXCEPT ![h] = TRUE]
  ELSE UNCHANGED nativeVars

\* vkEndCommandBuffer(h) returning res.  An error met while recording is
\* reported here and the buffer becomes Invalid; otherwise the recording
\* becomes Executable, unless the call itself fails.  Outside Recording the
\* call is undefined: an unchecked driver closes the stream, or reports an
\* error and leaves the buffer alone.
vkEndCommandBuffer(h, res) ==
  /\ (state[h] = "Recording" /\ recError[h] # "VK_SUCCESS") => res = recError[h]
  /\ state' = [state EXCEPT ![h] =
                 IF res = "VK_SUCCESS" THEN "Executable"
                 ELSE IF state[h] = "Recording" THEN "Invalid"
                 ELSE state[h]]
  /\ UNCHANGED <<cmds, recError, usage, retained>>

\* vkResetCommandBuffer(h, flags) returning res.  Legal in every state but
\* Pending; it discards the commands and returns the buffer to Initial, and
\* gives the buffer's memory back only when flags holds the release bit.
vkResetCommandBuffer(h, flags, res) ==
  IF res = "VK_SUCCESS"
  THEN /\ state' = [state EXCEPT ![h] = "Initial"]
       /\ cmds' = [cmds EXCEPT ![h] = <<>>]
       /\ recError' = [recError EXCEPT ![h] = "VK_SUCCESS"]
       /\ retained' = [retained EXCEPT ![h] =
                         retained[h] /\ flags % (2 * ReleaseResourcesBit)
                                          < ReleaseResourcesBit]
       /\ UNCHANGED usage
  ELSE UNCHANGED nativeVars

\* The vkCmd entry points called with the commands cs on handle h.  While
\* recording, the driver appends the first k of them and, when k falls
\* short, remembers the error e for vkEndCommandBuffer; once an error is
\* pending it appends nothing more.  Outside Recording the calls are
\* undefined: the driver drops them (k = 0) or writes them into the stream
\* unchecked (k = Len(cs)).
vkCmd(h, cs, k, e) ==
  /\ k \in 0..Len(cs)
  /\ IF state[h] = "Recording"
     THEN IF recError[h] = "VK_SUCCESS"
          THEN /\ cmds' = [cmds EXCEPT ![h] = cmds[h] \o SubSeq(cs, 1, k)]
               /\ recError' = [recError EXCEPT ![h] =
                                 IF k < Len(cs) THEN e ELSE "VK_SUCCESS"]
          ELSE /\ k = 0
               /\ UNCHANGED <<cmds, recError>>
     ELSE /\ k \in {0, Len(cs)}
          /\ cmds' = [cmds EXCEPT ![h] = cmds[h] \o SubSeq(cs, 1, k)]
          /\ UNCHANGED recError
  /\ UNCHANGED <<state, usage, retained>>

\* ------------------------------------------------------------ the recorder
\* CommandBuffer::command_buffer()
command_buffer(r) == command_buffer_[r]

\* Bookkeeping of a status-returning method: the value it returns and the
\* native call it made.
Returned(r, op, fn, flags, res, status) ==
  /\ ret' = [ret EXCEPT ![r] = status]
  /\ last' = [r |-> r, op |-> op, args |-> <<>>,
              from |-> state[command_buffer_[r]],
              err |-> recError[command_buffer_[r]],
              busy |-> inflight.phase = "running"]
  /\ issued' = << [fn |-> fn, h |-> command_buffer_[r], flags |-> flags,
                   res |-> res] >>
  /\ UNCHANGED <<live, command_buffer_, devVars>>

\* Begin, were it to drop the native result and report success.
Begin_AlwaysOk(r) ==
  /\ r \in live
  /\ \E res \in VkResults :
       /\ vkBeginCommandBuffer(command_buffer_[r], BeginFlags, res)
       /\ Returned(r, "Begin", "vkBeginCommandBuffer", BeginFlags, res,
                   OkStatus)

\* Begin, were it to call the native entry point once more after a failure.
Begin_Retries(r) ==
  /\ r \in live
  /\ \E first \in VkErrors, res \in VkResults :
       /\ vkBeginCommandBuffer(command_buffer_[r], BeginFlags, res)
       /\ ret' = [ret EXCEPT ![r] = VkResultToStatus(res)]
       /\ last' = [r |-> r, op |-> "Begin", args |-> <<>>,
                   from |-> state[command_buffer_[r]],
                   err |-> recError[command_buffer_[r]],
                   busy |-> inflight.phase = "running"]
       /\ issued' = << [fn |-> "vkBeginCommandBuffer", h |-> command_buffer_[r],
                        flags |-> BeginFlags, res |-> first],
                       [fn |-> "vkBeginCommandBuffer", h |-> command_buffer_[r],
                        flags |-> BeginFlags, res |-> res] >>
       /\ UNCHANGED <<live, command_buffer_, devVars>>

\* CommandBuffer::Begin
Begin(r) ==
  /\ r \in live
  /\ \E res \in VkResults :
       /\ vkBeginCommandBuffer(command_buffer_[r], BeginFlags, res)
       /\ Returned(r, "Begin", "vkBeginCommandBuffer", BeginFlags, res,
                   VkResultToStatus(res))

\* End, were it to drop the native result and report success.
End_AlwaysOk(r) ==
  /\ r \in live
  /\ \E res \in VkResults :
       /\ vkEndCommandBuffer(command_buffer_[r], res)
       /\ Returned(r, "End", "vkEndCommandBuffer", 0, res, OkStatus)

\* End, were it to discard the recorded commands when the native call fails.
End_RollsBack(r) ==
  /\ r \in live
  /\ \/ /\ vkEndCommandBuffer(command_buffer_[r], "VK_SUCCESS")
        /\ Returned(r, "End", "vkEndCommandBuffer", 0, "VK_SUCCESS", OkStatus)
     \/ \E res \in VkErrors :
          /\ vkResetCommandBuffer(command_buffer_[r], ResetFlags, "VK_SUCCESS")
          /\ Returned(r, "End", "vkEndCommandBuffer", 0, res,
                      VkResultToStatus(res))

\* CommandBuffer::End
End(r) ==
  /\ r \in live
  /\ \E res \in VkResults :
       /\ vkEndCommandBuffer(command_buffer_[r], res)
       /\ Returned(r, "End", "vkEndCommandBuffer", 0, res,
                   VkResultToStatus(res))

\* Reset, were it to call the begin entry point instead of the reset one.
Reset_CallsBegin(r) ==
  /\ r \in live
  /\ \E res \in VkResults :
       /\ vkBeginCommandBuffer(command_buffer_[r], ResetFlags, res)
       /\ Returned(r, "Reset", "vkBeginCommandBuffer", ResetFlags, res,
                   VkResultToStatus(res))

\* Reset, were it to wait until the device is idle.
Reset_Waits(r) ==
  /\ r \in live
  /\ inflight.phase = "none"
  /\ \E res \in VkResults :
       /\ vkResetCommandBuffer(command_buffer_[r], ResetFlags, res)
       /\ Returned(r, "Reset", "vkResetCommandBuffer", ResetFlags, res,
                   VkResultToStatus(res))

\* CommandBuffer::Reset
Reset(r) ==
  /\ r \in live
  /\ \E res \in VkResults :
       /\ vkResetCommandBuffer(command_buffer_[r], ResetFlags, res)
       /\ Returned(r, "Reset", "vkResetCommandBuffer", ResetFlags, res,
                   VkResultToStatus(res))

Reverse(cs) == [i \in 1..Len(cs) |-> cs[Len(cs) + 1 - i]]

\* A void method that makes the native calls cs, in order, on the
\* recorder's handle.
IssueInOrder(r, op, args, cs) ==
  /\ r \in live
  /\ \E k \in 0..Len(cs), e \in VkErrors :
       vkCmd(command_buffer_[r], cs, k, e)
  /\ ret' = [ret EXCEPT ![r] = VoidReturn]
  /\ last' = [r |-> r, op |-> op, args |-> args,
              from |-> state[command_buffer_[r]],
              err |-> recError[command_buffer_[r]],
              busy |-> inflight.phase = "running"]
  /\ issued' = [i \in 1..Len(cs) |->
                  [fn |-> cs[i].fn, h |-> command_buffer_[r], cmd |-> cs[i]]]
  /\ UNCHANGED <<live, command_buffer_, devVars>>

\* Issue, were it to make its native calls last to first.
Issue_Reversed(r, op, args, cs) == IssueInOrder(r, op, args, Reverse(cs))

\* Issue, were the recorder to check its state and make no native call
\* outside Recording.
Issue_Checked(r, op, args, cs) ==
  IF state[command_buffer_[r]] = "Recording"
  THEN IssueInOrder(r, op, args, cs)
  ELSE /\ r \in live
       /\ ret' = [ret EXCEPT ![r] = VoidReturn]
       /\ last' = [r |-> r, op |-> op, args |-> args,
                   from |-> state[command_buffer_[r]],
                   err |-> recError[command_buffer_[r]],
                   busy |-> inflight.phase = "running"]
       /\ issued' = << >>
       /\ UNCHANGED <<live, command_buffer_, nativeVars, devVars>>

Issue(r, op, args, cs) == IssueInOrder(r, op, args, cs)

\* The copy, were it to swap the two offsets of the region.
CopyBufferCmds_OffsetsSwapped(src_buffer, src_offset, dst_buffer, dst_offset, length) ==
  << [fn |-> "vkCmdCopyBuffer",
      src |-> buffer(src_buffer), dst |-> buffer(dst_buffer),
      regionCount |-> RegionCount,
      regions |-> << [srcOffset |-> dst_offset, dstOffset |-> src_offset,
                      size |-> length] >>] >>

\* CommandBuffer::CopyBuffer: one vkCmdCopyBuffer with one region.
CopyBufferCmds(src_buffer, src_offset, dst_buffer, dst_offset, length) ==
  << [fn |-> "vkCmdCopyBuffer",
      src |-> buffer(src_buffer), dst |-> buffer(dst_buffer),
      regionCount |-> RegionCount,
      regions |-> << [srcOffset |-> src_offset, dstOffset |-> dst_offset,
                      size |-> length] >>] >>

CopyBuffer(r, src_buffer, src_offset, dst_buffer, dst_offset, length) ==
  Issue(r, "CopyBuffer",
        <<src_buffer, src_offset, dst_buffer, dst_offset, length>>,
        CopyBufferCmds(src_buffer, src_offset, dst_buffer, dst_offset, length))

\* CommandBuffer::BindPipelineAndDescriptorSets: vkCmdBindPipeline, then
\* one vkCmdBindDescriptorSets per element of bound_descriptor_sets.
BindPipelineCmd(p) ==
  [fn |-> "vkCmdBindPipeline", bindPoint |-> "COMPUTE",
   pipeline |-> pipeline(p)]

BindDescriptorSetCmd(p, descriptor_set) ==
  [fn |-> "vkCmdBindDescriptorSets", bindPoint |-> "COMPUTE",
   layout |-> pipeline_layout(p), firstSet |-> descriptor_set.index,
   descriptorSetCount |-> DescriptorSetCount,
   sets |-> << descriptor_set.set >>, dynamicOffsets |-> << >>]

\* The bind, were it to bind the descriptor sets before the pipeline.
BindPipelineAndDescriptorSetsCmds_SetsFirst(p, bound_descriptor_sets) ==
  [i \in 1..Len(bound_descriptor_sets) |->
     BindDescriptorSetCmd(p, bound_descriptor_sets[i])]
  \o << BindPipelineCmd(p) >>

\* The bind, were it to bind each set at its position in the list instead
\* of at its index.
BindPipelineAndDescriptorSetsCmds_ByPosition(p, bound_descriptor_sets) ==
  << BindPipelineCmd(p) >> \o
  [i \in 1..Len(bound_descriptor_sets) |->
     BindDescriptorSetCmd(p, [index |-> i - 1,
                              set |-> bound_descriptor_sets[i].set])]

BindPipelineAndDescriptorSetsCmds(p, bound_descriptor_sets) ==
  << BindPipelineCmd(p) >> \o
  [i \in 1..Len(bound_descriptor_sets) |->
     BindDescriptorSetCmd(p, bound_descriptor_sets[i])]

BindPipelineAndDescriptorSets(r, p, bound_descriptor_sets) ==
  Issue(r, "BindPipelineAndDescriptorSets", <<p, bound_descriptor_sets>>,
        BindPipelineAndDescriptorSetsCmds(p, bound_descriptor_sets))

\* The pool reset, were it to stop one slot short.
ResetQueryPoolCmds_SkipsLast(q) ==
  << [fn |-> "vkCmdResetQueryPool", pool |-> query_pool(q),
      firstQuery |-> FirstQuery, queryCount |-> query_count(q) - 1] >>

\* CommandBuffer::ResetQueryPool: all slots, from 0 to query_count().
ResetQueryPoolCmds(q) ==
  << [fn |-> "vkCmdResetQueryPool", pool |-> query_pool(q),
      firstQuery |-> FirstQuery, queryCount |-> query_count(q)] >>

ResetQueryPool(r, q) ==
  Issue(r, "ResetQueryPool", <<q>>, ResetQueryPoolCmds(q))

\* The timestamp write, were it to ignore query_index and use slot 0.
WriteTimestampCmds_SlotZero(q, pipeline_stage, query_index) ==
  << [fn |-> "vkCmdWriteTimestamp", stage |-> pipeline_stage,
      pool |-> query_pool(q), query |-> 0] >>

\* The timestamp write, were it to write the slot after the one asked for.
WriteTimestampCmds_NextSlot(q, pipeline_stage, query_index) ==
  << [fn |-> "vkCmdWriteTimestamp", stage |-> pipeline_stage,
      pool |-> query_pool(q), query |-> (query_index + 1) % query_count(q)] >>

\* The timestamp write, were it to clamp query_index to the last slot.
WriteTimestampCmds_Clamped(q, pipeline_stage, query_index) ==
  << [fn |-> "vkCmdWriteTimestamp", stage |-> pipeline_stage,
      pool |-> query_pool(q),
      query |-> IF query_index < query_count(q) THEN query_index
                ELSE query_count(q) - 1] >>

\* CommandBuffer::WriteTimestamp
WriteTimestampCmds(q, pipeline_stage, query_index) ==
  << [fn |-> "vkCmdWriteTimestamp", stage |-> pipeline_stage,
      pool |-> query_pool(q), query |-> query_index] >>

WriteTimestamp(r, q, pipeline_stage, query_index) ==
  Issue(r, "WriteTimestamp", <<q, pipeline_stage, query_index>>,
        WriteTimestampCmds(q, pipeline_stage, query_index))

\* The dispatch, were it to record the command twice.
DispatchCmds_Twice(x, y, z) ==
  << [fn |-> "vkCmdDispatch", x |-> x, y |-> y, z |-> z],
     [fn |-> "vkCmdDispatch", x |-> x, y |-> y, z |-> z] >>

\* CommandBuffer::Dispatch
DispatchCmds(x, y, z) ==
  << [fn |-> "vkCmdDispatch", x |-> x, y |-> y, z |-> z] >>

Dispatch(r, x, y, z) ==
  Issue(r, "Dispatch", <<x, y, z>>, DispatchCmds(x, y, z))

\* CommandBuffer::~CommandBuffer, were it to give the handle back.
Destroy_Frees(r) ==
  /\ r \in live
  /\ live' = live \ {r}
  /\ state' = [state EXCEPT ![command_buffer_[r]] = "Initial"]
  /\ cmds' = [cmds EXCEPT ![command_buffer_[r]] = << >>]
  /\ retained' = [retained EXCEPT ![command_buffer_[r]] = FALSE]
  /\ UNCHANGED <<command_buffer_, recError, usage, callVars, devVars>>

\* CommandBuffer::~CommandBuffer = default: the object goes away; the
\* handle, owned by the pool that allocated it, is left as it is.
Destroy(r) ==
  /\ r \in live
  /\ live' = live \ {r}
  /\ UNCHANGED <<command_buffer_, nativeVars, callVars, devVars>>

\* ------------------------------------------- submission and device execution
\* Device::QueueSubmitAndWait, first half: the Executable recording of
\* recorder r is handed to the queue and its handle becomes Pending.  The
\* submission remembers the buffers' contents at that moment (memAt).
Submit(r) ==
  /\ r \in live
  /\ state[command_buffer_[r]] = "Executable"
  /\ inflight.phase = "none"
  /\ inflight' = [phase |-> "running", h |-> command_buffer_[r],
                  stream |-> cmds[command_buffer_[r]],
                  oneTime |-> usage[command_buffer_[r]] % (2 * OneTimeSubmitBit)
                                >= OneTimeSubmitBit,
                  memAt |-> mem]
  /\ state' = [state EXCEPT ![command_buffer_[r]] = "Pending"]
  /\ UNCHANGED <<cmds, recError, usage, retained, live, command_buffer_,
                 callVars, executed, bound, dispatches, timer, slots, mem,
                 poisoned>>

\* The device timer advances while work is in flight.
Tick ==
  /\ inflight.phase = "running"
  /\ timer < MaxTimer
  /\ timer' = timer + 1
  /\ UNCHANGED <<live, command_buffer_, nativeVars, callVars, inflight,
                 executed, slots, mem, bound, dispatches, poisoned>>

InBounds(region) ==
  /\ region.size > 0
  /\ region.srcOffset + region.size <= BufSize
  /\ region.dstOffset + region.size <= BufSize

\* The source and destination ranges of the region do not overlap.
Disjoint(region) ==
  \/ region.srcOffset + region.size <= region.dstOffset
  \/ region.dstOffset + region.size <= region.srcOffset

\* Memory after the copy command c: the bytes of the region move from src
\* to dst, all other bytes stay.
CopiedMem(c) ==
  LET g == c.regions[1] IN
  [mem EXCEPT ![c.dst] =
     [i \in 0..(BufSize - 1) |->
        IF g.dstOffset <= i /\ i < g.dstOffset + g.size
        THEN mem[c.src][i - g.dstOffset + g.srcOffset]
        ELSE mem[c.dst][i]]]

\* Slots after the reset command c: firstQuery .. firstQuery+queryCount-1
\* become unavailable.
ResetSlots(c) ==
  [slots EXCEPT ![c.pool] =
     [i \in 0..(QueryCount - 1) |->
        IF c.firstQuery <= i /\ i < c.firstQuery + c.queryCount
        THEN UnavailableSlot ELSE slots[c.pool][i]]]

\* Bind state after the descriptor-set bind c: the sets of c land at
\* firstSet, firstSet+1, ...; other indices keep their sets.
BoundAfter(c) ==
  [bound EXCEPT !.layout = c.layout,
                !.sets = [i \in SetIndices |->
                            IF c.firstSet <= i /\ i < c.firstSet + Len(c.sets)
                            THEN c.sets[i - c.firstSet + 1]
                            ELSE bound.sets[i]]]

\* The command c executes with defined results: a copy stays inside its
\* buffers and its source and destination do not overlap, a dispatch has a
\* pipeline bound, a timestamp write targets an existing slot that has been
\* reset since it was last written.
Defined(c) ==
  CASE c.fn = "vkCmdCopyBuffer" ->
         InBounds(c.regions[1]) /\ (c.src # c.dst \/ Disjoint(c.regions[1]))
    [] c.fn = "vkCmdDispatch" -> bound.pipeline # "none"
    [] c.fn = "vkCmdWriteTimestamp" ->
         c.query < QueryCount /\ slots[c.pool][c.query].st = "unavailable"
    [] OTHER -> TRUE

\* The device executes the next command of the submitted stream.
ExecStep ==
  /\ inflight.phase = "running"
  /\ Len(executed) < Len(inflight.stream)
  /\ LET c == inflight.stream[Len(executed) + 1] IN
     /\ executed' = Append(executed, [cmd |-> c, at |-> timer,
                                      defined |-> Defined(c)])
     /\ CASE c.fn = "vkCmdCopyBuffer" ->
               /\ IF Defined(c)
                  THEN mem' = CopiedMem(c) /\ UNCHANGED poisoned
                  ELSE poisoned' = TRUE /\ UNCHANGED mem
               /\ UNCHANGED <<slots, bound, dispatches>>
          [] c.fn = "vkCmdBindPipeline" ->
               /\ bound' = [bound EXCEPT !.pipeline = c.pipeline]
               /\ UNCHANGED <<slots, mem, dispatches, poisoned>>
          [] c.fn = "vkCmdBindDescriptorSets" ->
               /\ bound' = BoundAfter(c)
               /\ UNCHANGED <<slots, mem, dispatches, poisoned>>
          [] c.fn = "vkCmdDispatch" ->
               /\ dispatches' = Append(dispatches,
                                       [x |-> c.x, y |-> c.y, z |-> c.z,
                                        bound |-> bound])
               /\ poisoned' = (poisoned \/ ~Defined(c))
               /\ UNCHANGED <<slots, mem, bound>>
          [] c.fn = "vkCmdResetQueryPool" ->
               /\ slots' = ResetSlots(c)
               /\ UNCHANGED <<mem, bound, dispatches, poisoned>>
          [] c.fn = "vkCmdWriteTimestamp" ->
               /\ IF c.query >= QueryCount
                  THEN poisoned' = TRUE /\ UNCHANGED slots
                  ELSE /\ UNCHANGED poisoned
                       /\ IF Defined(c)
                          THEN slots' = [slots EXCEPT ![c.pool][c.query] =
                                           [st |-> "available", val |-> timer]]
                          ELSE \/ UNCHANGED slots
                               \/ slots' = [slots EXCEPT ![c.pool][c.query] =
                                              UndefinedSlot]
               /\ UNCHANGED <<mem, bound, dispatches>>
  /\ UNCHANGED <<live, command_buffer_, nativeVars, callVars, inflight, timer>>

\* Device::QueueSubmitAndWait, second half: the wait returns once every
\* command has executed, and the queue is idle again.  A one-time-submit
\* recording is Invalid afterwards.
Complete ==
  /\ inflight.phase = "running"
  /\ Len(executed) = Len(inflight.stream)
  /\ inflight' = NoSubmission
  /\ executed' = << >>
  /\ bound' = NoBinding
  /\ dispatches' = << >>
  /\ state' = [state EXCEPT ![inflight.h] =
                 IF state[inflight.h] # "Pending" THEN state[inflight.h]
                 ELSE IF inflight.oneTime THEN "Invalid" ELSE "Executable"]
  /\ UNCHANGED <<cmds, recError, usage, retained, live, command_buffer_,
                 callVars, timer, slots, mem, poisoned>>

\* ------------------------------------------------------------ initial state
InitCommon ==
  /\ command_buffer_ = HandleOf
  /\ state = [h \in Handles |-> "Initial"]
  /\ cmds = [h \in Handles |-> << >>]
  /\ recError = [h \in Handles |-> "VK_SUCCESS"]
  /\ usage = [h \in Handles |-> 0]
  /\ retained = [h \in Handles |-> FALSE]
  /\ ret = [r \in Recorders |-> VoidReturn]
  /\ last = NoCall
  /\ issued = << >>
  /\ inflight = NoSubmission
  /\ executed = << >>
  /\ timer = 0
  /\ slots = [q \in Pools |-> [i \in 0..(QueryCount - 1) |-> UndefinedSlot]]
  /\ mem = [b \in Buffers |->
              [i \in 0..(BufSize - 1) |-> IF b = "bufA" THEN i + 1 ELSE 0 - i]]
  /\ bound = NoBinding
  /\ dispatches = << >>
  /\ poisoned = FALSE

\* ------------------------------------------------------------ a free caller
\* One recorder, driven by a caller that may make any call at any time.
CopyArgs == { <<"bufA", 1, "bufB", 0, 2>> }
BindArgs == { << [index |-> 1, set |-> "s2"] >> }
WriteArgs == { <<"BOTTOM_OF_PIPE", 1>> }

Init ==
  /\ live = {1}
  /\ InitCommon
  /\ script = << >> /\ pc = 1 /\ iter = 0

\* The caller is single-threaded and QueueSubmitAndWait blocks it: it makes
\* no other call while a submission is in flight.
CallerIdle == inflight.phase = "none"

\* The free caller stops adding commands once a stream holds MaxCmds.
Room(r, n) == Len(cmds[command_buffer_[r]]) + n <= MaxCmds

CallBegin == CallerIdle /\ \E r \in live : Begin(r) /\ UNCHANGED scriptVars
CallEnd == CallerIdle /\ \E r \in live : End(r) /\ UNCHANGED scriptVars
CallReset == CallerIdle /\ \E r \in live : Reset(r) /\ UNCHANGED scriptVars
CallCopyBuffer ==
  /\ CallerIdle
  /\ \E r \in live, a \in CopyArgs :
       /\ Room(r, 1)
       /\ CopyBuffer(r, a[1], a[2], a[3], a[4], a[5])
       /\ UNCHANGED scriptVars
CallBind ==
  /\ CallerIdle
  /\ \E r \in live, sets \in BindArgs :
       /\ Room(r, 1 + Len(sets))
       /\ BindPipelineAndDescriptorSets(r, "p1", sets)
       /\ UNCHANGED scriptVars
CallDispatch ==
  /\ CallerIdle
  /\ \E r \in live : Room(r, 1) /\ Dispatch(r, 4, 1, 1) /\ UNCHANGED scriptVars
CallResetQueryPool ==
  /\ CallerIdle
  /\ \E r \in live, q \in Pools :
       Room(r, 1) /\ ResetQueryPool(r, q) /\ UNCHANGED scriptVars
CallWriteTimestamp ==
  /\ CallerIdle
  /\ \E r \in live, q \in Pools, a \in WriteArgs :
       Room(r, 1) /\ WriteTimestamp(r, q, a[1], a[2]) /\ UNCHANGED scriptVars
QueueSubmit == \E r \in live : Submit(r) /\ UNCHANGED scriptVars
DeviceTick == Tick /\ UNCHANGED scriptVars
DeviceExec == ExecStep /\ UNCHANGED scriptVars
QueueWait == Complete /\ UNCHANGED scriptVars

Next ==
  \/ CallBegin \/ CallEnd \/ CallReset
  \/ CallCopyBuffer \/ CallBind \/ CallDispatch
  \/ CallResetQueryPool \/ CallWriteTimestamp
  \/ QueueSubmit \/ DeviceExec \/ QueueWait

Spec == Init /\ [][Next]_vars

\* ---------------------------------------------------------- a scripted caller
\* The handle of the scripted caller's recorder.
Me == command_buffer_[1]

\* Recorder 1 driven through a fixed list of calls, as the benchmark loop
\* does: Begin, commands, End, QueueSubmitAndWait, Reset, MaxIter times over.
\* A call that returns an error status ends the run (pc = 0).
Step(op, args) == [op |-> op, args |-> args]

Wrap(body) ==
  << Step("Begin", << >>) >> \o body \o
  << Step("End", << >>), Step("QueueSubmitAndWait", << >>),
     Step("Reset", << >>) >>

\* The scenario of two timestamps around one dispatch.
ScenarioTimestamps ==
  Wrap(<< Step("ResetQueryPool", <<"qp">>),
          Step("WriteTimestamp", <<"qp", "TOP_OF_PIPE", 0>>),
          Step("BindPipelineAndDescriptorSets",
               <<"p1", << [index |-> 0, set |-> "s1"] >> >>),
          Step("Dispatch", <<8, 1, 1>>),
          Step("WriteTimestamp", <<"qp", "BOTTOM_OF_PIPE", 1>>) >>)

\* A pool reset followed by writes into slots i and j.
TwoWrites(stage, i, j) ==
  Wrap(<< Step("ResetQueryPool", <<"qp">>),
          Step("WriteTimestamp", <<"qp", stage, i>>),
          Step("WriteTimestamp", <<"qp", stage, j>>) >>)

TwoWritesScripts ==
  { TwoWrites(stage, i, j) :
      stage \in Stages, i \in 0..(QueryCount - 1), j \in 0..(QueryCount - 1) }

\* A write with no reset in its recording, alone and after a recording that
\* only resets the pool.
WriteOnly ==
  Wrap(<< Step("WriteTimestamp", <<"qp", "TOP_OF_PIPE", 0>>) >>)

ResetThenWriteLater ==
  << Step("Begin", << >>), Step("ResetQueryPool", <<"qp">>),
     Step("End", << >>), Step("QueueSubmitAndWait", << >>),
     Step("Reset", << >>) >> \o WriteOnly

\* A bind of a list of descriptor sets followed by a dispatch.
BindEntries ==
  { [index |-> 0, set |-> "s1"], [index |-> 2, set |-> "s2"],
    [index |-> 1, set |-> "s3"] }

Distinct(list) ==
  \A i, j \in 1..Len(list) : i # j => list[i].index # list[j].index

BindLists ==
  { list \in UNION { [1..n -> BindEntries] : n \in 0..Cardinality(BindEntries) } :
      Distinct(list) }
  \cup { << [index |-> 0, set |-> "s1"], [index |-> 0, set |-> "s2"] >> }

BindThenDispatch(p, list) ==
  Wrap(<< Step("BindPipelineAndDescriptorSets", <<p, list>>),
          Step("Dispatch", <<4, 1, 1>>) >>)

BindScripts == { BindThenDispatch(p, list) : p \in Pipelines, list \in BindLists }

\* One copy, over a range of offsets and lengths that reach past the end
\* of the buffers.
CopyOnce(src, src_offset, dst, dst_offset, length) ==
  Wrap(<< Step("CopyBuffer", <<src, src_offset, dst, dst_offset, length>>) >>)

CopyScripts ==
  { CopyOnce(src, so, dst, do, n) :
      src \in Buffers, dst \in Buffers, so \in {0, 1, BufSize - 1},
      do \in {0, 2}, n \in {1, 2, BufSize} }

\* A pool reset followed by a write at index i, inside the pool and past
\* its end.
WriteAt(i) ==
  Wrap(<< Step("ResetQueryPool", <<"qp">>),
          Step("WriteTimestamp", <<"qp", "BOTTOM_OF_PIPE", i>>) >>)

WriteAtScripts == { WriteAt(i) : i \in 0..(QueryCount + 1) }

\* A caller that submits the same recording a second time with no
\* Reset() in between.
Resubmit ==
  << Step("Begin", << >>),
     Step("CopyBuffer", <<"bufA", 1, "bufB", 0, 2>>),
     Step("End", << >>), Step("QueueSubmitAndWait", << >>),
     Step("QueueSubmitAndWait", << >>), Step("Reset", << >>) >>

\* Every sequence of at most MaxScriptCalls command-issuing calls.
CommandCalls ==
  { Step("CopyBuffer", <<"bufA", 1, "bufB", 0, 2>>),
    Step("BindPipelineAndDescriptorSets",
         <<"p1", << [index |-> 1, set |-> "s2"] >> >>),
    Step("Dispatch", <<4, 1, 1>>),
    Step("ResetQueryPool", <<"qp">>),
    Step("WriteTimestamp", <<"qp", "TOP_OF_PIPE", 0>>),
    Step("WriteTimestamp", <<"qp", "BOTTOM_OF_PIPE", 1>>) }

CommandScripts ==
  { Wrap(body) : body \in UNION { [1..n -> CommandCalls] : n \in 0..MaxScriptCalls } }

Scripts ==
  {ScenarioTimestamps, WriteOnly, ResetThenWriteLater, Resubmit}
  \cup TwoWritesScripts \cup BindScripts \cup CommandScripts
  \cup CopyScripts \cup WriteAtScripts

InitScript ==
  /\ live = {1}
  /\ InitCommon
  /\ script \in Scripts
  /\ pc = 1
  /\ iter = 0

\* What every scripted call does besides the call itself: the caller is not
\* blocked, the script is at a step of that method, and it moves on, or
\* stops when the call returned an error.
AtStep(op) ==
  /\ CallerIdle
  /\ pc \in 1..Len(script)
  /\ script[pc].op = op

Advance ==
  /\ pc' = IF ret'[1].kind = "NativeApiError" THEN 0 ELSE pc + 1
  /\ UNCHANGED <<script, iter>>

ScriptBegin == AtStep("Begin") /\ Begin(1) /\ Advance
ScriptEnd == AtStep("End") /\ End(1) /\ Advance
ScriptReset == AtStep("Reset") /\ Reset(1) /\ Advance
ScriptCopyBuffer ==
  /\ AtStep("CopyBuffer")
  /\ LET a == script[pc].args IN CopyBuffer(1, a[1], a[2], a[3], a[4], a[5])
  /\ Advance
ScriptBind ==
  /\ AtStep("BindPipelineAndDescriptorSets")
  /\ LET a == script[pc].args IN BindPipelineAndDescriptorSets(1, a[1], a[2])
  /\ Advance
ScriptDispatch ==
  /\ AtStep("Dispatch")
  /\ LET a == script[pc].args IN Dispatch(1, a[1], a[2], a[3])
  /\ Advance
ScriptResetQueryPool ==
  /\ AtStep("ResetQueryPool")
  /\ ResetQueryPool(1, script[pc].args[1])
  /\ Advance
ScriptWriteTimestamp ==
  /\ AtStep("WriteTimestamp")
  /\ LET a == script[pc].args IN WriteTimestamp(1, a[1], a[2], a[3])
  /\ Advance
ScriptSubmit ==
  /\ AtStep("QueueSubmitAndWait")
  /\ Submit(1)
  /\ pc' = pc + 1
  /\ UNCHANGED <<script, iter>>
\* The submission layer consumes Executable recordings only: anything else
\* is turned away and the caller gives up.
ScriptSubmitRejected ==
  /\ AtStep("QueueSubmitAndWait")
  /\ state[Me] # "Executable"
  /\ pc' = 0
  /\ UNCHANGED <<script, iter, live, command_buffer_, nativeVars, callVars,
                 devVars>>
NextIteration ==
  /\ CallerIdle
  /\ pc = Len(script) + 1
  /\ iter + 1 < MaxIter
  /\ pc' = 1
  /\ iter' = iter + 1
  /\ UNCHANGED <<script, live, command_buffer_, nativeVars, callVars, devVars>>

NextScript ==
  \/ ScriptBegin \/ ScriptEnd \/ ScriptReset
  \/ ScriptCopyBuffer \/ ScriptBind \/ ScriptDispatch
  \/ ScriptResetQueryPool \/ ScriptWriteTimestamp
  \/ ScriptSubmit \/ ScriptSubmitRejected
  \/ DeviceTick \/ DeviceExec \/ QueueWait
  \/ NextIteration

SpecScript == InitScript /\ [][NextScript]_vars

\* ------------------------------------------------------------- two callers
\* Two recorders, each driven by its own caller through the control flow
\* Begin, commands, End, QueueSubmitAndWait, read the timestamps, Reset.
\* The callers share the queue, which runs one submission at a time; a
\* caller is blocked only inside its own QueueSubmitAndWait, so one records
\* while the other's submission executes.  Here script, pc and iter hold
\* one entry per recorder.
WrapRead(body) ==
  << Step("Begin", << >>) >> \o body \o
  << Step("End", << >>), Step("QueueSubmitAndWait", << >>),
     Step("ReadTimestamps", <<"qp">>), Step("Reset", << >>) >>

TwoScripts ==
  { WrapRead(<< Step("CopyBuffer", <<"bufA", 1, "bufB", 0, 2>>) >>),
    WrapRead(<< Step("Dispatch", <<4, 1, 1>>), Step("Dispatch", <<8, 1, 1>>) >>),
    WrapRead(<< Step("ResetQueryPool", <<"qp">>),
                Step("WriteTimestamp", <<"qp", "TOP_OF_PIPE", 0>>) >>) }

InitTwo ==
  /\ live = Recorders
  /\ InitCommon
  /\ script \in [Recorders -> TwoScripts]
  /\ pc = [r \in Recorders |-> 1]
  /\ iter = [r \in Recorders |-> 0]

\* Recorder r's caller is not inside QueueSubmitAndWait and is at a step
\* of method op.
AtStepOf(r, op) ==
  /\ r \in live
  /\ inflight.h # command_buffer_[r]
  /\ pc[r] \in 1..Len(script[r])
  /\ script[r][pc[r]].op = op

AdvanceOf(r) ==
  /\ pc' = [pc EXCEPT ![r] =
               IF ret'[r].kind = "NativeApiError" THEN 0 ELSE pc[r] + 1]
  /\ UNCHANGED <<script, iter>>

TwoBegin == \E r \in Recorders : AtStepOf(r, "Begin") /\ Begin(r) /\ AdvanceOf(r)
TwoEnd == \E r \in Recorders : AtStepOf(r, "End") /\ End(r) /\ AdvanceOf(r)
TwoReset == \E r \in Recorders : AtStepOf(r, "Reset") /\ Reset(r) /\ AdvanceOf(r)
TwoCopyBuffer ==
  \E r \in Recorders :
    /\ AtStepOf(r, "CopyBuffer")
    /\ LET a == script[r][pc[r]].args
       IN CopyBuffer(r, a[1], a[2], a[3], a[4], a[5])
    /\ AdvanceOf(r)
TwoDispatch ==
  \E r \in Recorders :
    /\ AtStepOf(r, "Dispatch")
    /\ LET a == script[r][pc[r]].args IN Dispatch(r, a[1], a[2], a[3])
    /\ AdvanceOf(r)
TwoResetQueryPool ==
  \E r \in Recorders :
    /\ AtStepOf(r, "ResetQueryPool")
    /\ ResetQueryPool(r, script[r][pc[r]].args[1])
    /\ AdvanceOf(r)
TwoWriteTimestamp ==
  \E r \in Recorders :
    /\ AtStepOf(r, "WriteTimestamp")
    /\ LET a == script[r][pc[r]].args IN WriteTimestamp(r, a[1], a[2], a[3])
    /\ AdvanceOf(r)
TwoSubmit ==
  \E r \in Recorders :
    /\ AtStepOf(r, "QueueSubmitAndWait")
    /\ Submit(r)
    /\ pc' = [pc EXCEPT ![r] = pc[r] + 1]
    /\ UNCHANGED <<script, iter>>

\* The caller reads the slots of the pool once its wait has returned.
TwoRead ==
  \E r \in Recorders :
    /\ AtStepOf(r, "ReadTimestamps")
    /\ last' = [r |-> r, op |-> "ReadTimestamps",
                args |-> << slots[script[r][pc[r]].args[1]] >>,
                from |-> state[command_buffer_[r]],
                err |-> recError[command_buffer_[r]],
                busy |-> inflight.phase = "running"]
    /\ issued' = << >>
    /\ pc' = [pc EXCEPT ![r] = pc[r] + 1]
    /\ UNCHANGED <<script, iter, live, command_buffer_, nativeVars, ret,
                   devVars>>

TwoNextIteration ==
  \E r \in Recorders :
    /\ r \in live
    /\ pc[r] = Len(script[r]) + 1
    /\ iter[r] + 1 < MaxIter
    /\ pc' = [pc EXCEPT ![r] = 1]
    /\ iter' = [iter EXCEPT ![r] = iter[r] + 1]
    /\ UNCHANGED <<script, live, command_buffer_, nativeVars, callVars, devVars>>

\* A caller destroys its recorder once it has stopped using it.
TwoDestroy ==
  \E r \in Recorders :
    /\ pc[r] \in {0, Len(script[r]) + 1}
    /\ Destroy(r)
    /\ UNCHANGED scriptVars

NextTwo ==
  \/ TwoBegin \/ TwoEnd \/ TwoReset
  \/ TwoCopyBuffer \/ TwoDispatch
  \/ TwoResetQueryPool \/ TwoWriteTimestamp
  \/ TwoSubmit \/ DeviceExec \/ QueueWait \/ TwoRead
  \/ TwoNextIteration \/ TwoDestroy

SpecTwo == InitTwo /\ [][NextTwo]_vars

\* ================================================================ properties
LifecycleOps == {"Begin", "End", "Reset"}
CommandOps == {"CopyBuffer", "BindPipelineAndDescriptorSets", "Dispatch",
               "ResetQueryPool", "WriteTimestamp"}

\* The last call was the status-returning method op, made in state from.
LastWas(op, from) == last.op = op /\ last.from = from

\* The last call made exactly one native call, fn, on the recorder's own
\* handle, and returned its result: success for VK_SUCCESS, otherwise a
\* NativeApiError carrying the native code.
ForwardsResult(fn) ==
  /\ Len(issued) = 1
  /\ issued[1].fn = fn
  /\ issued[1].h = command_buffer_[last.r]
  /\ (ret[last.r].kind = "Ok") <=> (issued[1].res = "VK_SUCCESS")
  /\ issued[1].res # "VK_SUCCESS" =>
       ret[last.r] = [kind |-> "NativeApiError", code |-> issued[1].res]

\* C1 as stated: a Begin() made while the recorder is in Recording state
\* returns a NativeApiError and never success.
C1_SecondBeginFails ==
  LastWas("Begin", "Recording") => ret[last.r].kind = "NativeApiError"

\* C1 as amended: a Begin() made while the recorder is in Recording state
\* makes one native begin call on the recorder's handle and returns exactly
\* that call's result, an error when the native layer reports one and
\* success when it reports success; the recorder adds no check of its own.
C1_SecondBeginForwards ==
  LastWas("Begin", "Recording") => ForwardsResult("vkBeginCommandBuffer")

\* A second Begin() during a recording has returned success.
C1_Witness ==
  /\ LastWas("Begin", "Recording")
  /\ ret[last.r].kind = "Ok"
  /\ state[command_buffer_[last.r]] = "Recording"

\* A step of the caller: a method call (the queue does not change hands).
MethodStep == inflight.phase = "none" /\ inflight' = inflight /\ last'.r \in live

Ok1 == ret'[last'.r].kind = "Ok"

\* C2 as stated: the recorder is always in one of Initial, Recording,
\* Executable, and its state changes only by a successful Begin() from
\* Initial or Executable to Recording, a successful End() from Recording to
\* Executable, and a successful Reset() from Executable to Initial.
C2_ThreeStates ==
  [][\A h \in Handles :
       /\ state'[h] \in {"Initial", "Recording", "Executable"}
       /\ state'[h] # state[h] =>
            /\ MethodStep
            /\ h = command_buffer_[last'.r]
            /\ Ok1
            /\ \/ /\ last'.op = "Begin"
                  /\ state[h] \in {"Initial", "Executable"}
                  /\ state'[h] = "Recording"
               \/ /\ last'.op = "End"
                  /\ state[h] = "Recording"
                  /\ state'[h] = "Executable"
               \/ /\ last'.op = "Reset"
                  /\ state[h] = "Executable"
                  /\ state'[h] = "Initial"]_vars

\* The call obeys the contract of its native entry point.
ValidFrom(op, from) ==
  \/ op = "Begin" /\ from \in {"Initial", "Executable", "Invalid"}
  \/ op = "End" /\ from = "Recording"
  \/ op = "Reset" /\ from # "Pending"

\* C2 as amended: the recording is always in exactly one of Initial,
\* Recording, Executable, Pending, Invalid.  Its state changes only by
\* Begin(), End(), Reset(), by submission (Executable to Pending) and by
\* completion (Pending to Invalid for a recording started by Begin(), which
\* is always one-time-submit).  For calls the native contract allows:
\* a successful Begin() from Initial, Executable or Invalid leads to
\* Recording; End() from Recording leads to Executable on success and to
\* Invalid on failure; a successful Reset() from Initial, Recording,
\* Executable or Invalid leads to Initial; a failed Begin() or Reset()
\* changes nothing.  Reset() from Initial leaves the state Initial.
C2_Lifecycle ==
  [][\A h \in Handles :
       /\ state'[h] \in LifecycleStates
       /\ state'[h] # state[h] /\ inflight' # inflight =>
            \/ state[h] = "Executable" /\ state'[h] = "Pending"
                 /\ inflight'.h = h
            \/ state[h] = "Pending" /\ inflight.h = h
                 /\ inflight.oneTime => state'[h] = "Invalid"
       /\ state'[h] # state[h] /\ inflight' = inflight =>
            /\ MethodStep
            /\ h = command_buffer_[last'.r]
            /\ last'.op \in LifecycleOps
            /\ last'.from = state[h]
       /\ (MethodStep /\ h = command_buffer_[last'.r]
             /\ last'.op \in LifecycleOps /\ ValidFrom(last'.op, state[h])) =>
            state'[h] =
              CASE last'.op = "Begin" -> IF Ok1 THEN "Recording" ELSE state[h]
                [] last'.op = "End" -> IF Ok1 THEN "Executable" ELSE "Invalid"
                [] last'.op = "Reset" -> IF Ok1 THEN "Initial" ELSE state[h]]_vars

\* A successful Reset() has taken the recorder from Recording to Initial.
C2_Witness ==
  /\ LastWas("Reset", "Recording")
  /\ ret[last.r].kind = "Ok"
  /\ state[command_buffer_[last.r]] = "Initial"

\* C7: only Begin(), End() and Reset() produce an error; each returns
\* success exactly when its native call reports success and otherwise a
\* NativeApiError with the native code.  The five command-issuing methods
\* return nothing in every state; an error met while recording their
\* commands is what the next End() returns.
C7_ErrorsOnlyFromLifecycle ==
  /\ \A r \in live : ret[r].kind = "NativeApiError" =>
       last.op \in LifecycleOps
  /\ last.op = "Begin" => ForwardsResult("vkBeginCommandBuffer")
  /\ last.op = "End" => ForwardsResult("vkEndCommandBuffer")
  /\ last.op = "Reset" => ForwardsResult("vkResetCommandBuffer")
  /\ last.op \in CommandOps => ret[last.r] = VoidReturn
  /\ (LastWas("End", "Recording") /\ last.err # "VK_SUCCESS") =>
       ret[last.r] = [kind |-> "NativeApiError", code |-> last.err]

\* An error met while recording a command has surfaced at End().
C7_Witness ==
  /\ LastWas("End", "Recording")
  /\ last.err # "VK_SUCCESS"
  /\ ret[last.r] = [kind |-> "NativeApiError", code |-> last.err]

\* ------------------------------------------------ the scripted caller's view

\* The wait of the current iteration has returned and Reset() is next or done.
AfterWait ==
  /\ CallerIdle
  /\ pc \in {Len(script), Len(script) + 1}

\* The commands a call is expected to append, written from the signature of
\* each method.
ExpectedBind(p, sets) ==
  << [fn |-> "vkCmdBindPipeline", bindPoint |-> "COMPUTE", pipeline |-> p] >>
  \o [i \in 1..Len(sets) |->
        [fn |-> "vkCmdBindDescriptorSets", bindPoint |-> "COMPUTE",
         layout |-> pipeline_layout(p), firstSet |-> sets[i].index,
         descriptorSetCount |-> 1, sets |-> << sets[i].set >>,
         dynamicOffsets |-> << >>]]

Expected(s) ==
  CASE s.op = "CopyBuffer" ->
         << [fn |-> "vkCmdCopyBuffer", src |-> s.args[1], dst |-> s.args[3],
             regionCount |-> 1,
             regions |-> << [srcOffset |-> s.args[2], dstOffset |-> s.args[4],
                             size |-> s.args[5]] >>] >>
    [] s.op = "BindPipelineAndDescriptorSets" ->
         ExpectedBind(s.args[1], s.args[2])
    [] s.op = "Dispatch" ->
         << [fn |-> "vkCmdDispatch", x |-> s.args[1], y |-> s.args[2],
             z |-> s.args[3]] >>
    [] s.op = "ResetQueryPool" ->
         << [fn |-> "vkCmdResetQueryPool", pool |-> s.args[1],
             firstQuery |-> 0, queryCount |-> QueryCount] >>
    [] s.op = "WriteTimestamp" ->
         << [fn |-> "vkCmdWriteTimestamp", stage |-> s.args[2],
             pool |-> s.args[1], query |-> s.args[3]] >>
    [] OTHER -> << >>

RECURSIVE ExpectedStream(_)
ExpectedStream(steps) ==
  IF steps = << >> THEN << >>
  ELSE Expected(Head(steps)) \o ExpectedStream(Tail(steps))

\* The steps of the script from its last Begin before position k up to k-1.
LastBegin(k) ==
  LET begins == { i \in 1..(k - 1) : i <= Len(script) /\ script[i].op = "Begin" }
  IN IF begins = {} THEN 0 ELSE CHOOSE i \in begins : \A j \in begins : j <= i

CallsOfRecording(k) ==
  IF k - 1 > Len(script) \/ k < 1 THEN << >>
  ELSE SubSeq(script, LastBegin(k) + 1, k - 1)

\* C3: after any number of iterations Begin; commands; End; submit; wait;
\* Reset the recorder is back in Initial, from where Begin() starts the next
\* recording; Reset() passes no release flag, and leaves the handle's
\* memory, the query slots and the buffers as they were.
C3_ReuseAcrossIterations ==
  [][/\ (pc' = 1 /\ iter' >= 1) =>
          state'[Me] = "Initial" /\ retained'[Me] /\ cmds'[Me] = << >>
     /\ (pc' = 2 /\ iter' >= 1) => state'[Me] = "Recording"
     /\ (AtStep("Reset") /\ pc' # pc) =>
          /\ issued'[1].fn = "vkResetCommandBuffer"
          /\ issued'[1].flags % 2 = 0
          /\ retained' = retained
          /\ slots' = slots
          /\ mem' = mem]_vars

\* The last iteration's Begin() has succeeded after MaxIter - 1 resets.
C3_Witness ==
  /\ iter = MaxIter - 1
  /\ pc = 2
  /\ state[Me] = "Recording"
  /\ retained[Me]
  /\ last.op = "Begin" /\ last.from = "Initial"

\* C4: after Begin(), command-issuing calls and End(), the command stream is
\* the commands of those calls in call order, and the device executes the
\* submitted stream in that order.
C4_ProgramOrder ==
  (pc >= 1 /\ state[Me] \in {"Executable", "Pending"}) =>
     /\ cmds[Me] = ExpectedStream(CallsOfRecording(pc))
     /\ inflight.phase = "running" =>
          /\ inflight.stream = cmds[Me]
          /\ Len(executed) <= Len(cmds[Me])
          /\ \A i \in 1..Len(executed) : executed[i].cmd = cmds[Me][i]

\* A stream of at least three commands has been executed to its end.
C4_Witness ==
  /\ script \in CommandScripts
  /\ inflight.phase = "running"
  /\ Len(executed) = Len(inflight.stream)
  /\ Len(executed) >= 3
  /\ executed[1].cmd # executed[3].cmd

\* C5: BindPipelineAndDescriptorSets(pipeline, boundSets) with n entries
\* makes 1 + n native calls on the recorder's handle and so appends 1 + n
\* commands: the compute pipeline bind, then per entry, in input order, a
\* bind of that one set at that entry's index with the pipeline's layout.
C5_BindAppends ==
  last.op = "BindPipelineAndDescriptorSets" =>
    LET want == ExpectedBind(last.args[1], last.args[2])
        n == Len(last.args[2])
        have == cmds[Me]
    IN /\ Len(issued) = 1 + n
       /\ \A i \in 1..Len(issued) :
            issued[i].h = command_buffer_[last.r] /\ issued[i].cmd = want[i]
       /\ (last.from = "Recording" /\ last.err = "VK_SUCCESS"
             /\ state[Me] = "Recording" /\ recError[Me] = "VK_SUCCESS") =>
            /\ Len(have) >= 1 + n
            /\ SubSeq(have, Len(have) - n, Len(have)) = want

\* A bind of three sets has appended its four commands.
C5_Witness ==
  /\ last.op = "BindPipelineAndDescriptorSets"
  /\ Len(last.args[2]) = 3
  /\ state[Me] = "Recording" /\ recError[Me] = "VK_SUCCESS"
  /\ Len(cmds[Me]) = 4

\* The bind state a list of entries describes, whatever its order.
SetsOf(list) ==
  [i \in SetIndices |->
     IF \E k \in 1..Len(list) : list[k].index = i
     THEN list[CHOOSE k \in 1..Len(list) : list[k].index = i].set
     ELSE "none"]

\* C6: after BindPipelineAndDescriptorSets with sets at pairwise distinct
\* indices, a following dispatch sees the pipeline and every listed set
\* bound at its index, and sees the same bind state for every order of the
\* list.
C6_BindOrderIrrelevant ==
  \A p \in Pipelines, list \in BindLists :
    (Distinct(list) /\ script = BindThenDispatch(p, list)
       /\ dispatches # << >>) =>
      /\ dispatches[1].bound.pipeline = p
      /\ \A k \in 1..Len(list) :
           dispatches[1].bound.sets[list[k].index] = list[k].set
      /\ dispatches[1].bound.sets = SetsOf(list)

\* The dispatch has executed after a bind of the sets at indices 0, 2, 1.
C6_Witness ==
  /\ script = BindThenDispatch("p1", << [index |-> 0, set |-> "s1"],
                                         [index |-> 2, set |-> "s2"],
                                         [index |-> 1, set |-> "s3"] >>)
  /\ dispatches # << >>
  /\ dispatches[1].bound.sets = [i \in SetIndices |->
                                   IF i = 0 THEN "s1"
                                   ELSE IF i = 1 THEN "s3" ELSE "s2"]

\* C8: in one recording, ResetQueryPool(pool), WriteTimestamp(pool, stage, i)
\* and WriteTimestamp(pool, stage, j) with i # j leave, once executed, slot
\* i and slot j available, each holding the timer value latched by its own
\* write; the second write does not change the first slot.
C8_TwoSlotsIndependent ==
  \A stage \in Stages, i \in 0..(QueryCount - 1), j \in 0..(QueryCount - 1) :
    (i # j /\ script = TwoWrites(stage, i, j)) =>
      /\ (inflight.phase = "running" /\ Len(executed) = 3) =>
           /\ slots["qp"][i] = [st |-> "available", val |-> executed[2].at]
           /\ slots["qp"][j] = [st |-> "available", val |-> executed[3].at]
      /\ AfterWait =>
           /\ slots["qp"][i].st = "available"
           /\ slots["qp"][j].st = "available"

\* Both writes have executed and latched different timer values.
C8_Witness ==
  /\ script = TwoWrites("TOP_OF_PIPE", 1, 0)
  /\ inflight.phase = "running"
  /\ Len(executed) = 3
  /\ slots["qp"][1].st = "available"
  /\ slots["qp"][0].st = "available"
  /\ slots["qp"][1].val < slots["qp"][0].val

\* The command executed last by the device, when this step executed one.
Executes(c) ==
  /\ executed' # executed
  /\ Len(executed') = Len(executed) + 1
  /\ executed'[Len(executed')].cmd = c

IsReset(c, q) == c.fn = "vkCmdResetQueryPool" /\ c.pool = q
IsWrite(c, q) == c.fn = "vkCmdWriteTimestamp" /\ c.pool = q

\* ResetQueryPool(pool) makes one native call, a reset of the slots 0 to
\* slot count - 1 of that pool, and the executed command leaves every slot
\* of the pool unavailable.
ResetCoversPool ==
  /\ last'.op = "ResetQueryPool" =>
       /\ Len(issued') = 1
       /\ issued'[1].cmd = [fn |-> "vkCmdResetQueryPool",
                            pool |-> last'.args[1],
                            firstQuery |-> 0, queryCount |-> QueryCount]
  /\ \A q \in Pools :
       (inflight.phase = "running" /\ Len(executed) < Len(inflight.stream)
          /\ IsReset(inflight.stream[Len(executed) + 1], q)
          /\ executed' # executed) =>
         \A i \in 0..(QueryCount - 1) : slots'[q][i] = UnavailableSlot

C10_TimestampsOrdered ==
  (script = ScenarioTimestamps /\ AfterWait) =>
     /\ slots["qp"][0].st = "available"
     /\ slots["qp"][1].st = "available"
     /\ slots["qp"][1].val >= slots["qp"][0].val

\* The scenario has run and the second timestamp is later than the first.
C10_Witness ==
  /\ script = ScenarioTimestamps
  /\ AfterWait
  /\ slots["qp"][0].st = "available"
  /\ slots["qp"][1].st = "available"
  /\ slots["qp"][1].val > slots["qp"][0].val

\* The region a CopyBuffer call with arguments a describes.
RegionOf(a) == [srcOffset |-> a[2], dstOffset |-> a[4], size |-> a[5]]

\* C11: CopyBuffer(src, srcOffset, dst, dstOffset, length) makes one native
\* copy call with one region holding exactly the offsets and length given,
\* whether or not they fit the buffers, and appends that one command; once
\* the recording has executed, and the range fits the buffers, the bytes
\* dst[dstOffset .. dstOffset+length-1] equal the bytes
\* src[srcOffset .. srcOffset+length-1] as they were at submission, and every
\* other byte of dst and of the other buffers is as it was at submission.
C11_CopyBuffer ==
  /\ last.op = "CopyBuffer" =>
       /\ Len(issued) = 1
       /\ issued[1].h = command_buffer_[last.r]
       /\ issued[1].cmd = [fn |-> "vkCmdCopyBuffer", src |-> last.args[1],
                           dst |-> last.args[3], regionCount |-> 1,
                           regions |-> << RegionOf(last.args) >>]
       /\ (script \in CopyScripts /\ state[Me] = "Recording"
             /\ recError[Me] = "VK_SUCCESS") => cmds[Me] = << issued[1].cmd >>
  /\ (script \in CopyScripts /\ inflight.phase = "running"
        /\ Len(executed) = 1) =>
       LET a == script[2].args
           g == RegionOf(a)
           src == a[1]
           dst == a[3]
           was == inflight.memAt
       IN /\ executed[1].cmd.regions = << g >>
          /\ IF InBounds(g) /\ (src # dst \/ Disjoint(g))
             THEN /\ \A i \in 0..(BufSize - 1) :
                       mem[dst][i] =
                         IF g.dstOffset <= i /\ i < g.dstOffset + g.size
                         THEN was[src][i - g.dstOffset + g.srcOffset]
                         ELSE was[dst][i]
                  /\ \A b \in Buffers \ {dst} : mem[b] = was[b]
             ELSE poisoned /\ ~executed[1].defined

\* Two bytes of bufA, from offset 1, have been copied to offset 2 of bufB.
C11_Witness ==
  /\ script = CopyOnce("bufA", 1, "bufB", 2, 2)
  /\ iter = 0
  /\ inflight.phase = "running"
  /\ Len(executed) = 1
  /\ mem["bufB"][2] = inflight.memAt["bufA"][1]
  /\ mem["bufB"][3] = inflight.memAt["bufA"][2]
  /\ mem["bufB"][2] # inflight.memAt["bufB"][2]
  /\ mem["bufB"][1] = inflight.memAt["bufB"][1]

\* a is an initial part of b.
IsPrefix(a, b) == Len(a) <= Len(b) /\ SubSeq(b, 1, Len(a)) = a

\* The step is a call of a lifecycle method on the recorder of handle h.
LifecycleCall(h) ==
  /\ MethodStep
  /\ h = command_buffer_[last'.r]
  /\ last'.op \in LifecycleOps

\* C12 as stated: the appended commands only grow; only a successful
\* Reset() clears them, and only once Executable has been reached through a
\* successful End().  (A handle still in Initial holds no recording, and
\* a call the native contract forbids is left out of account.)
C12_OnlyResetAfterExecutable ==
  [][\A h \in Handles :
       \/ IsPrefix(cmds[h], cmds'[h])
       \/ state[h] = "Initial"
       \/ LifecycleCall(h) /\ ~ValidFrom(last'.op, state[h])
       \/ /\ cmds'[h] = << >>
          /\ LifecycleCall(h)
          /\ last'.op = "Reset"
          /\ Ok1
          /\ state[h] \in {"Executable", "Pending", "Invalid"}]_vars

\* C12 as amended: no command-issuing call, no End() and no failed Begin()
\* or Reset() removes or reorders an appended command.  The commands are
\* cleared only by a successful Reset(), in whatever state it is called,
\* while Recording as well as after End(), and by a successful Begin(),
\* which starts the recording afresh.
C12_NoRollback ==
  [][\A h \in Handles :
       /\ \/ IsPrefix(cmds[h], cmds'[h])
          \/ /\ cmds'[h] = << >>
             /\ LifecycleCall(h)
             /\ last'.op \in {"Reset", "Begin"}
             /\ Ok1
       /\ (LifecycleCall(h) /\ ~Ok1) => cmds'[h] = cmds[h]
       /\ (LifecycleCall(h) /\ last'.op = "End") => cmds'[h] = cmds[h]
       /\ (LifecycleCall(h) /\ last'.op \in {"Reset", "Begin"} /\ Ok1) =>
            cmds'[h] = << >>]_vars

\* A failed End() has left the two or more recorded commands in place.
C12_Witness ==
  /\ LastWas("End", "Recording")
  /\ ret[last.r].kind = "NativeApiError"
  /\ state[command_buffer_[last.r]] = "Invalid"
  /\ Len(cmds[command_buffer_[last.r]]) >= 2

\* The step is a command-issuing call made while the recorder's handle is
\* not in Recording state.
StrayCall ==
  /\ MethodStep
  /\ last'.op \in CommandOps
  /\ state[command_buffer_[last'.r]] # "Recording"

\* The call makes the same native calls as it would while recording, returns
\* nothing and leaves the lifecycle state alone.
ForwardedAsIs ==
  LET h == command_buffer_[last'.r]
      want == Expected([op |-> last'.op, args |-> last'.args])
  IN /\ issued' = [i \in 1..Len(want) |->
                     [fn |-> want[i].fn, h |-> h, cmd |-> want[i]]]
     /\ ret'[last'.r] = VoidReturn
     /\ state' = state
     /\ cmds'[h] \in {cmds[h], cmds[h] \o want}

\* C13 as stated: a command-issuing call made outside Recording is
\* forwarded to the native layer unchecked, and never becomes a command of
\* a recording that is Executable.
C13_NeverRecorded ==
  [][StrayCall =>
       /\ ForwardedAsIs
       /\ state'[command_buffer_[last'.r]] = "Executable" =>
            cmds'[command_buffer_[last'.r]] = cmds[command_buffer_[last'.r]]]_vars

\* C13 as amended: a command-issuing call made outside Recording is
\* forwarded to the native layer unchecked: the recorder makes the same
\* native calls, returns nothing and the lifecycle state stays as it was.
\* What becomes of the call is the native layer's choice: it drops the
\* commands, or writes them into the handle's stream, where they are part
\* of whatever is submitted from that handle.
C13_ForwardedUnchecked ==
  [][StrayCall => ForwardedAsIs]_vars

\* A command-issuing call made before any Begin() has been written into
\* the stream of the handle, which is still Initial.
C13_Witness ==
  /\ last.op \in CommandOps
  /\ last.from = "Initial"
  /\ state[command_buffer_[last.r]] = "Initial"
  /\ Len(issued) >= 1
  /\ cmds[command_buffer_[last.r]] = << issued[1].cmd >>

\* ------------------------------------------------------ the two callers' view
RecorderOf(h) == CHOOSE r \in Recorders : command_buffer_[r] = h

\* The step is recorder r's caller making its scripted call of op.
CallOf(r, op) ==
  /\ pc[r] \in 1..Len(script[r])
  /\ script[r][pc[r]].op = op
  /\ pc'[r] # pc[r]

\* No method of recorder r has to wait: each can be called now.
NeverBlocked(r) ==
  /\ ENABLED Begin(r)
  /\ ENABLED End(r)
  /\ ENABLED Reset(r)
  /\ ENABLED CopyBuffer(r, "bufA", 1, "bufB", 0, 2)
  /\ ENABLED BindPipelineAndDescriptorSets(r, "p1", << >>)
  /\ ENABLED Dispatch(r, 4, 1, 1)
  /\ ENABLED ResetQueryPool(r, "qp")
  /\ ENABLED WriteTimestamp(r, "qp", "TOP_OF_PIPE", 0)

\* C14: a recording is submitted only when Executable, after its End() has
\* returned success; the wait returns only after that submission, once the
\* device has executed every command; Reset() and the reading of the
\* timestamps come only after the wait has returned; and no recorder method
\* waits for the device: each is callable whether or not a submission is
\* executing, and completes in one step that leaves the submission and the
\* device's progress as they were.
C14_ControlFlow ==
  /\ [](\A r \in live : NeverBlocked(r))
  /\ [][/\ (inflight.phase = "none" /\ inflight'.phase = "running") =>
            LET r == RecorderOf(inflight'.h)
            IN /\ state[inflight'.h] = "Executable"
               /\ CallOf(r, "QueueSubmitAndWait")
               /\ script[r][pc[r] - 1].op = "End"
               /\ ret[r] = OkStatus
        /\ (inflight.phase = "running" /\ inflight'.phase = "none") =>
            /\ state[inflight.h] = "Pending"
            /\ Len(executed) = Len(inflight.stream)
        /\ \A r \in Recorders :
            /\ (CallOf(r, "Reset") \/ CallOf(r, "ReadTimestamps")) =>
                 /\ inflight.h # command_buffer_[r]
                 /\ state[command_buffer_[r]] = "Invalid"
                 /\ script[r][pc[r] - 1].op \in
                      {"QueueSubmitAndWait", "ReadTimestamps"}
            /\ \A op \in LifecycleOps \cup CommandOps :
                 CallOf(r, op) =>
                   /\ last'.r = r /\ last'.op = op
                   /\ inflight' = inflight
                   /\ executed' = executed]_vars

\* Recorder 2's End() has returned success while the device was executing
\* recorder 1's submission.
C14_Witness ==
  /\ last.r = 2 /\ last.op = "End" /\ last.busy
  /\ ret[2] = OkStatus
  /\ state[command_buffer_[2]] = "Executable"
  /\ inflight.phase = "running"
  /\ inflight.h = command_buffer_[1]
  /\ Len(executed) < Len(inflight.stream)

\* C15: every Begin() declares the recording one-time-submit; a recording
\* is submitted only when Executable, which it becomes only through End()
\* from Recording, and once submitted it is Pending and then Invalid until
\* a Reset() or a new Begin(): so between one Begin() and the next Reset()
\* it is submitted at most once, and a second submission with no Reset()
\* in between is turned away, leaving the device untouched.
C15_OneTimeSubmit ==
  [][/\ (AtStep("Begin") /\ pc' # pc) =>
          /\ issued'[1].fn = "vkBeginCommandBuffer"
          /\ issued'[1].flags % 2 = 1
          /\ state'[Me] = "Recording" => usage'[Me] % 2 = 1
     /\ (inflight.phase = "none" /\ inflight'.phase = "running") =>
          /\ inflight'.h = Me
          /\ inflight'.oneTime
          /\ state[Me] = "Executable" /\ state'[Me] = "Pending"
     /\ (state'[Me] = "Executable" /\ state[Me] # "Executable") =>
          state[Me] = "Recording" /\ AtStep("End")
     /\ state[Me] = "Pending" => state'[Me] \in {"Pending", "Invalid"}
     /\ (state[Me] = "Invalid" /\ state'[Me] # "Invalid") =>
          \/ AtStep("Reset") /\ state'[Me] = "Initial"
          \/ AtStep("Begin") /\ state'[Me] = "Recording"
     /\ (AtStep("QueueSubmitAndWait") /\ state[Me] # "Executable"
           /\ pc' # pc) =>
          /\ pc' = 0
          /\ inflight' = inflight /\ executed' = executed /\ mem' = mem
          /\ state' = state]_vars

\* The second submission of an executed recording has been turned away.
C15_Witness ==
  /\ script = Resubmit
  /\ pc = 0
  /\ last.op = "End" /\ ret[1] = OkStatus
  /\ state[Me] = "Invalid"
  /\ inflight = NoSubmission
  /\ mem["bufB"][0] = mem["bufA"][1]

\* The lifecycle call of this step made exactly one native call, on handle
\* h, and returned its result: success, or an error with the native code.
OneCallReturned(h) ==
  /\ Len(issued') = 1
  /\ issued'[1].h = h
  /\ issued'[1].fn = CASE last'.op = "Begin" -> "vkBeginCommandBuffer"
                       [] last'.op = "End" -> "vkEndCommandBuffer"
                       [] last'.op = "Reset" -> "vkResetCommandBuffer"
  /\ ret'[last'.r] =
       IF issued'[1].res = "VK_SUCCESS"
       THEN [kind |-> "Ok", code |-> "VK_SUCCESS"]
       ELSE [kind |-> "NativeApiError", code |-> issued'[1].res]

RecordingIn(sc, k) ==
  LET begins == { i \in 1..(k - 1) : i <= Len(sc) /\ sc[i].op = "Begin" }
      from == IF begins = {} THEN 0
              ELSE CHOOSE i \in begins : \A j \in begins : j <= i
  IN IF k < 1 \/ k - 1 > Len(sc) THEN << >> ELSE SubSeq(sc, from + 1, k - 1)

\* C17: each recorder holds one native handle, fixed at construction and
\* different from every other recorder's; no operation changes it, and
\* destroying the recorder leaves the handle and its recording as they
\* are.  Every native call of a recorder's method targets that recorder's
\* own handle and changes no other handle, so with two recorders driven in
\* any interleaving each recording holds exactly the commands appended
\* through its own recorder, in that recorder's call order.
C17_OwnHandle ==
  [][/\ command_buffer_' = command_buffer_
     /\ \A r1, r2 \in Recorders :
          r1 # r2 => command_buffer_'[r1] # command_buffer_'[r2]
     /\ live' # live =>
          /\ nativeVars' = nativeVars
          /\ inflight' = inflight /\ executed' = executed
     /\ \A r \in Recorders :
          LET own == command_buffer_[r] IN
          /\ \A op \in LifecycleOps \cup CommandOps :
               CallOf(r, op) =>
                 /\ Len(issued') >= 1
                 /\ \A i \in 1..Len(issued') : issued'[i].h = own
                 /\ \A h \in Handles \ {own} :
                      /\ state'[h] = state[h] /\ cmds'[h] = cmds[h]
                      /\ recError'[h] = recError[h]
                      /\ usage'[h] = usage[h] /\ retained'[h] = retained[h]
          /\ (pc'[r] >= 1 /\ state'[own] \in {"Executable", "Pending"}) =>
               cmds'[own] = ExpectedStream(RecordingIn(script[r], pc'[r]))]_vars

\* Recorder 1's recording is executing and recorder 2's is Executable, each
\* holding its own, different commands.
C17_Witness ==
  /\ state[command_buffer_[1]] = "Pending"
  /\ state[command_buffer_[2]] = "Executable"
  /\ Len(cmds[command_buffer_[1]]) = 2
  /\ Len(cmds[command_buffer_[2]]) = 2
  /\ cmds[command_buffer_[1]] # cmds[command_buffer_[2]]
  /\ inflight.h = command_buffer_[1]
  /\ Len(executed) = 1

\* The scripted caller makes its call of op in this step.
Calls(op) == AtStep(op) /\ pc' # pc

\* The call of this step made exactly one native call and appended at most
\* that one command behind the commands already there, exactly that one
\* unless the native layer failed to record it; the lifecycle state and the
\* commands appended before are as they were.
AppendsOne ==
  /\ Len(issued') = 1
  /\ issued'[1].h = Me
  /\ state' = state
  /\ IsPrefix(cmds[Me], cmds'[Me])
  /\ cmds'[Me] \in {cmds[Me], Append(cmds[Me], issued'[1].cmd)}
  /\ (state[Me] = "Recording" /\ recError'[Me] = "VK_SUCCESS") =>
       cmds'[Me] = Append(cmds[Me], issued'[1].cmd)

\* C18: CopyBuffer, Dispatch, ResetQueryPool and WriteTimestamp each append
\* exactly one command per call, and BindPipelineAndDescriptorSets with an
\* empty set list appends exactly one, the pipeline bind (a command the
\* native layer fails to record is reported by End() instead); none of the
\* five changes the lifecycle state or a command appended before.
C18_OneCommandPerCall ==
  [][/\ \A op \in {"CopyBuffer", "Dispatch", "ResetQueryPool", "WriteTimestamp"} :
          Calls(op) => AppendsOne
     /\ (Calls("BindPipelineAndDescriptorSets")
           /\ script[pc].args[2] = << >>) =>
          AppendsOne /\ issued'[1].fn = "vkCmdBindPipeline"
     /\ Calls("BindPipelineAndDescriptorSets") =>
          /\ state' = state
          /\ IsPrefix(cmds[Me], cmds'[Me])
          /\ Len(cmds'[Me]) <= Len(cmds[Me]) + 1 + Len(script[pc].args[2])]_vars

\* A bind with an empty set list has appended the pipeline bind alone.
C18_Witness ==
  /\ script = BindThenDispatch("p2", << >>)
  /\ pc = 3
  /\ last.op = "BindPipelineAndDescriptorSets"
  /\ state[Me] = "Recording"
  /\ cmds[Me] = << [fn |-> "vkCmdBindPipeline", bindPoint |-> "COMPUTE",
                    pipeline |-> "p2"] >>

\* C19: WriteTimestamp(pool, stage, queryIndex) makes one native write call
\* for exactly the queryIndex, pool and stage given and appends that
\* command, for an index inside the pool and for one at or past the slot
\* count alike: the index is neither rejected, clamped nor wrapped, and the
\* out-of-range write reaches the device, where it is undefined.
\* ResetQueryPool always covers the slots 0 to slot count - 1.
C19_IndexUnchecked ==
  /\ last.op = "WriteTimestamp" =>
       /\ Len(issued) = 1
       /\ issued[1].cmd = [fn |-> "vkCmdWriteTimestamp",
                           stage |-> last.args[2], pool |-> last.args[1],
                           query |-> last.args[3]]
       /\ (state[Me] = "Recording" /\ recError[Me] = "VK_SUCCESS"
             /\ last.from = "Recording" /\ last.err = "VK_SUCCESS") =>
            cmds[Me][Len(cmds[Me])] = issued[1].cmd
  /\ last.op = "ResetQueryPool" =>
       /\ Len(issued) = 1
       /\ issued[1].cmd = [fn |-> "vkCmdResetQueryPool",
                           pool |-> last.args[1], firstQuery |-> 0,
                           queryCount |-> QueryCount]
  /\ \A i \in 0..(QueryCount + 1) :
       (script = WriteAt(i) /\ inflight.phase = "running"
          /\ Len(executed) = 2) =>
         /\ executed[2].cmd.query = i
         /\ IF i < QueryCount
            THEN /\ executed[2].defined
                 /\ slots["qp"][i].st = "available"
                 /\ \A j \in 0..(QueryCount - 1) \ {i} :
                      slots["qp"][j] = UnavailableSlot
            ELSE /\ ~executed[2].defined
                 /\ poisoned
                 /\ \A j \in 0..(QueryCount - 1) :
                      slots["qp"][j] = UnavailableSlot

\* A write at the index equal to the slot count has been recorded as given
\* and has reached the device.
C19_Witness ==
  /\ script = WriteAt(QueryCount)
  /\ inflight.phase = "running"
  /\ Len(executed) = 2
  /\ executed[2].cmd.query = QueryCount
  /\ ~executed[2].defined
  /\ poisoned

====
